---- MODULE Spec2Model ----
(***************************************************************************)
(* A model of the peanuts interactive session (src/peanuts/cli/session.py) *)
(* and of the storage engine it drives.  Session.map_insert_to_json,       *)
(* Session.run_command and Session.run_session are translated from their   *)
(* code.  Instance, Schema and Cache (src.main, src.schema) are imported   *)
(* by the session and modelled from their documented contracts.           *)
(*                                                                         *)
(* `assert` statements are modelled as executed (the interpreter's default *)
(* mode).                                                                  *)
(***************************************************************************)
EXTENDS Integers, Sequences, FiniteSets, TLC

(***************************************************************************)
(* Python values, as json.loads produces them: a record of the runtime     *)
(* type's name and the value.                                              *)
(***************************************************************************)
PyStr(s) == [ty |-> "str", v |-> s]
PyInt(n) == [ty |-> "int", v |-> n]
PyFloat(s) == [ty |-> "float", v |-> s]
PyBool(b) == [ty |-> "bool", v |-> b]
PyNone == [ty |-> "NoneType", v |-> "None"]
PyList(items) == [ty |-> "list", v |-> items]
PyDict(pairs) == [ty |-> "dict", v |-> pairs]

\* str(type(x)) and str(t) for a class: "<class 'int'>".
ClassStr(ty) == "<class '" \o ty \o "'>"

\* isinstance(item, t): bool is a subclass of int.
IsInstance(item, t) == item.ty = t \/ (t = "int" /\ item.ty = "bool")

\* The characters of a str, each a str when iterated.  Only their number being
\* zero or not and their type matter to a type check, so a non-empty string
\* other than "Ann" is kept as one item.
Chars(s) ==
    CASE s = "Ann" -> <<"A", "n", "n">>
      [] s = "" -> <<>>
      [] OTHER -> <<s>>

\* `for item in arr`: a list yields its items, a str its characters, a dict its
\* keys; any other value raises TypeError.
Iterable(arr) == arr.ty \in {"list", "str", "dict"}
IterItems(arr) ==
    CASE arr.ty = "list" -> arr.v
      [] arr.ty = "str" -> [i \in 1..Len(Chars(arr.v)) |-> PyStr(Chars(arr.v)[i])]
      [] arr.ty = "dict" -> [i \in 1..Len(arr.v) |-> PyStr(arr.v[i][1])]

(***************************************************************************)
(* json.loads on the texts the model reads.  DecodeError stands for        *)
(* json.decoder.JSONDecodeError.                                           *)
(***************************************************************************)
DecodeError == [ty |-> "JSONDecodeError", v |-> "JSONDecodeError"]

JsonLoads(text) ==
    CASE text = "30" -> PyInt(30)
      [] text = "31" -> PyInt(31)
      [] text = "1" -> PyInt(1)
      [] text = "2" -> PyInt(2)
      [] text = "true" -> PyBool(TRUE)
      [] text = "false" -> PyBool(FALSE)
      [] text = "1.5" -> PyFloat("1.5")
      [] text = "null" -> PyNone
      [] text = "\"Ann\"" -> PyStr("Ann")
      [] text = "\"\"" -> PyStr("")
      [] text = "\"thirty\"" -> PyStr("thirty")
      [] text = "\"30\"" -> PyStr("30")
      [] text = "\"true\"" -> PyStr("true")
      [] text = "\"[1, 2]\"" -> PyStr("[1, 2]")
      [] text = "\"[1, \\\"a\\\"]\"" -> PyStr("[1, \"a\"]")
      [] text = "\"\\\"Ann\\\"\"" -> PyStr("\"Ann\"")
      [] text = "[]" -> PyList(<<>>)
      [] text = "[1, 2]" -> PyList(<<PyInt(1), PyInt(2)>>)
      [] text = "[1,2]" -> PyList(<<PyInt(1), PyInt(2)>>)
      [] text = "[1, \"a\"]" -> PyList(<<PyInt(1), PyStr("a")>>)
      [] text = "[\"a\", 1]" -> PyList(<<PyStr("a"), PyInt(1)>>)
      [] text = "[\"a\", \"b\"]" -> PyList(<<PyStr("a"), PyStr("b")>>)
      [] text = "[true, false]" -> PyList(<<PyBool(TRUE), PyBool(FALSE)>>)
      [] text = "[1, true]" -> PyList(<<PyInt(1), PyBool(TRUE)>>)
      [] text = "[true, 1]" -> PyList(<<PyBool(TRUE), PyInt(1)>>)
      [] text = "[1.5]" -> PyList(<<PyFloat("1.5")>>)
      [] text = "[1.5, 1]" -> PyList(<<PyFloat("1.5"), PyInt(1)>>)
      [] text = "[1, null, \"a\"]" -> PyList(<<PyInt(1), PyNone, PyStr("a")>>)
      [] text = "{\"k\": 1}" -> PyDict(<<(<<"k", PyInt(1)>>)>>)
      [] OTHER -> DecodeError

(***************************************************************************)
(* json.dumps of a value.                                                  *)
(***************************************************************************)
IntText(n) ==
    CASE n = 1 -> "1" [] n = 2 -> "2" [] n = 30 -> "30" [] n = 31 -> "31"

\* The JSON escapes of a string's characters (quotes are backslash-escaped).
Escape(s) ==
    CASE s = "\"Ann\"" -> "\\\"Ann\\\""
      [] s = "[1, \"a\"]" -> "[1, \\\"a\\\"]"
      [] OTHER -> s

RECURSIVE JsonDumps(_), JoinDumps(_, _)
JoinDumps(items, i) ==
    IF i > Len(items) THEN ""
    ELSE (IF i = 1 THEN "" ELSE ", ") \o JsonDumps(items[i]) \o JoinDumps(items, i + 1)
JsonDumps(value) ==
    CASE value.ty = "str" -> "\"" \o Escape(value.v) \o "\""
      [] value.ty = "int" -> IntText(value.v)
      [] value.ty = "float" -> value.v
      [] value.ty = "bool" -> IF value.v THEN "true" ELSE "false"
      [] value.ty = "NoneType" -> "null"
      [] value.ty = "list" -> "[" \o JoinDumps(value.v, 1) \o "]"

\* json.dumps(entries): the object's members in insertion order, each a key
\* and the JSON text of its value.
DumpsObject(entries) ==
    [i \in 1..Len(entries) |-> <<entries[i][1], JsonDumps(entries[i][2])>>]

(***************************************************************************)
(* Exceptions and returns of the modelled calls.                           *)
(***************************************************************************)
Raise(exc, msg) == [kind |-> "raise", exc |-> exc, msg |-> msg]
Return(value) == [kind |-> "return", value |-> value]

\* DataTypeConflictException.__init__: the message "Expected {exp}, got {got}".
DataTypeConflictException(exp, got) ==
    Raise("DataTypeConflictException", "Expected " \o exp \o ", got " \o got)

\* bool(value) of a Python value, as `assert` tests it.
Truthy(value) ==
    CASE value.ty = "NoneType" -> FALSE
      [] value.ty = "bool" -> value.v
      [] value.ty = "int" -> value.v # 0
      [] value.ty = "str" -> value.v # ""
      [] value.ty \in {"list", "dict"} -> Len(value.v) > 0
      [] OTHER -> TRUE

\* `assert <call>`: the call's exception propagates; a falsy result raises
\* AssertionError with no message.
PyAssert(r) ==
    IF r.kind = "raise" THEN r
    ELSE IF Truthy(r.value) THEN Return(PyNone)
    ELSE Raise("AssertionError", "")

(***************************************************************************)
(* SchemaTypeToPyT members and the Python class each array member checks.  *)
(***************************************************************************)
ScalarTypes == {"STRING", "INTEGER", "FLOAT", "BOOL"}
ArrayTypes == {"A_STRING", "A_INTEGER", "A_FLOAT", "A_BOOL"}
FieldTypes == ScalarTypes \cup ArrayTypes

ArrayClass(tdata) ==
    CASE tdata = "A_STRING" -> "str"
      [] tdata = "A_INTEGER" -> "int"
      [] tdata = "A_FLOAT" -> "float"
      [] tdata = "A_BOOL" -> "bool"

\* verify_array(t, arr): raises on the first item that is no instance of t,
\* returns None otherwise.
verify_array(t, arr) ==
    IF ~Iterable(arr)
    THEN Raise("TypeError", "'" \o arr.ty \o "' object is not iterable")
    ELSE LET items == IterItems(arr)
             bad == {i \in 1..Len(items) : ~IsInstance(items[i], t)}
         IN  IF bad = {} THEN Return(PyNone)
             ELSE LET first == CHOOSE i \in bad : \A j \in bad : i <= j
                  IN  DataTypeConflictException(ClassStr(t), ClassStr(items[first].ty))

\* The type checks of map_insert_to_json on the decoded input data.
CheckedEntry(tdata, data) ==
    IF tdata \in ArrayTypes
    THEN PyAssert(verify_array(ArrayClass(tdata), data))
    ELSE IF tdata = "BOOL" /\ ~IsInstance(data, "bool")
    THEN DataTypeConflictException("bool", ClassStr(data.ty))
    ELSE IF tdata = "INTEGER" /\ ~IsInstance(data, "int")
    THEN DataTypeConflictException("int", ClassStr(data.ty))
    ELSE IF tdata = "FLOAT" /\ ~IsInstance(data, "float")
    THEN DataTypeConflictException("float", ClassStr(data.ty))
    ELSE Return(data)

\* entries[key] = data, unless a check raised.
StoreEntry(checked, data) ==
    IF checked.kind = "raise" THEN checked ELSE Return(data)

DecodedEntry(tdata, ind, data) ==
    IF data.ty = "JSONDecodeError" THEN Raise("JSONDecodeError", ind)
    ELSE StoreEntry(CheckedEntry(tdata, data), data)

\* One pass of map_insert_to_json's loop: the entry stored for a field of
\* type tdata when the console input is ind, or the exception raised.
FieldEntry(tdata, ind) ==
    IF tdata = "STRING" THEN Return(PyStr(ind))
    ELSE DecodedEntry(tdata, ind, JsonLoads(ind))

\* map_insert_to_json(items): items are the schema's (key, type) pairs in
\* order, inputs the console's answers; the first exception ends the loop.
RECURSIVE MapEntries(_, _, _, _)
\* Mutant: a field whose check raises is skipped and the loop goes on.
MapStepSkipsField(items, inputs, i, entries, r) ==
    IF r.kind = "raise" THEN MapEntries(items, inputs, i + 1, entries)
    ELSE MapEntries(items, inputs, i + 1, Append(entries, <<items[i][1], r.value>>))
MapStep(items, inputs, i, entries, r) ==
    IF r.kind = "raise" THEN r
    ELSE MapEntries(items, inputs, i + 1, Append(entries, <<items[i][1], r.value>>))
MapEntries(items, inputs, i, entries) ==
    IF i > Len(items) THEN Return(entries)
    ELSE MapStep(items, inputs, i, entries, FieldEntry(items[i][2], inputs[i]))

\* return json.dumps(entries)
DumpEntries(r) ==
    IF r.kind = "raise" THEN r ELSE Return(DumpsObject(r.value))

map_insert_to_json(items, inputs) == DumpEntries(MapEntries(items, inputs, 1, <<>>))

(***************************************************************************)
(* State.                                                                  *)
(*   schemas  Instance.schemas: name -> [configs, cache]                   *)
(*   files    the database directory: schema name -> (record id -> file)   *)
(*   status   "running", "ended" (quit) or "crashed" (uncaught exception)  *)
(*   out      the lines the last command printed                           *)
(*   cmd      the last command read: its words and its console answers     *)
(*   n        the number of commands read                                  *)
(*   written  history: schema name -> (record id -> the record of the most *)
(*            recent insert that succeeded)                                *)
(*   dropped  history: the names dropped and not created again             *)
(*   repeated history: the last command repeats the one before it          *)
(*   vType, vInput, vResult   a field type, a console input and the result *)
(*            of map_insert_to_json's pass over them                       *)
(***************************************************************************)
VARIABLES schemas, files, status, out, cmd, n, written, dropped, repeated,
          vType, vInput, vResult

vars == <<schemas, files, status, out, cmd, n, written, dropped, repeated,
          vType, vInput, vResult>>
sessionVars == <<schemas, files, status, out, cmd, n, written, dropped, repeated>>
validateVars == <<vType, vInput, vResult>>

MaxCmds == 3
MaxLoadArgs == 2

EmptyMap == [x \in {} |-> x]
Put(f, k, v) == (k :> v) @@ f
Del(f, k) == [x \in DOMAIN f \ {k} |-> f[x]]

\* A printed line: the format string (named by its first words) and the value
\* interpolated into it.
Line(kind, val) == [kind |-> kind, val |-> val]

\* The state the engine works on, and a call's result with the state it leaves.
World(s, f) == [schemas |-> s, files |-> f]
Result(w, res) == [w |-> w, res |-> res]
\* A command's result, the state it leaves and the lines it printed.
Outcome(w, res, lines) == [w |-> w, res |-> res, lines |-> lines]

(***************************************************************************)
(* The storage engine the session calls: Instance, Schema, Cache and the   *)
(* files under the database directory.                                     *)
(***************************************************************************)
\* A declaration's type word and the SchemaTypeToPyT member it names.
TypeToken(tok) ==
    CASE tok = "STRING" -> "STRING"
      [] tok = "INTEGER" -> "INTEGER"
      [] tok = "FLOAT" -> "FLOAT"
      [] tok = "BOOL" -> "BOOL"
      [] tok = "ARRAY_STRING" -> "A_STRING"
      [] tok = "ARRAY_INTEGER" -> "A_INTEGER"
      [] tok = "ARRAY_FLOAT" -> "A_FLOAT"
      [] tok = "ARRAY_BOOL" -> "A_BOOL"
      [] OTHER -> "?"

\* field1 type1 field2 type2 ...: parsed pairwise.
WellFormedDeclaration(words) ==
    /\ Len(words) % 2 = 0
    /\ \A i \in 1..(Len(words) \div 2) : TypeToken(words[2 * i]) # "?"
Configs(words) ==
    [i \in 1..(Len(words) \div 2) |-> <<words[2 * i - 1], TypeToken(words[2 * i])>>]

\* The Python class a field type expects of a value (of an array's items).
ExpectedClass(tdata) ==
    CASE tdata \in {"STRING", "A_STRING"} -> "str"
      [] tdata \in {"INTEGER", "A_INTEGER"} -> "int"
      [] tdata \in {"FLOAT", "A_FLOAT"} -> "float"
      [] tdata \in {"BOOL", "A_BOOL"} -> "bool"

\* Type System: validate(declaredType, rawValue).  The runtime type matches
\* exactly; an array is a list whose items all match, and its first
\* mismatching item is the conflict reported.
validate(tdata, value) ==
    IF tdata \in ScalarTypes
    THEN IF value.ty = ExpectedClass(tdata) THEN Return(value)
         ELSE DataTypeConflictException(ExpectedClass(tdata), value.ty)
    ELSE IF value.ty # "list" THEN DataTypeConflictException("list", value.ty)
    ELSE LET bad == {i \in 1..Len(value.v) : value.v[i].ty # ExpectedClass(tdata)}
         IN  IF bad = {} THEN Return(value)
             ELSE LET first == CHOOSE i \in bad : \A j \in bad : i <= j
                  IN  DataTypeConflictException(ExpectedClass(tdata), value.v[first].ty)

\* Instance.add_schema(name, spec).
add_schema(w, name, words) ==
    IF name \in DOMAIN w.schemas THEN Result(w, Raise("DuplicateSchema", name))
    ELSE IF ~WellFormedDeclaration(words) THEN Result(w, Raise("MalformedSchema", name))
    ELSE Result(World(Put(w.schemas, name, [configs |-> Configs(words), cache |-> EmptyMap]),
                      Put(w.files, name, EmptyMap)),
                Return(PyNone))

\* Instance.drop_schema(name): the schema, its cache and its directory go.
drop_schema(w, name) ==
    IF name \notin DOMAIN w.schemas THEN Result(w, Raise("SchemaNotFound", name))
    ELSE Result(World(Del(w.schemas, name), Del(w.files, name)), Return(PyNone))

\* A record file's text and the record read back from it.
Serialize(record) == [k \in DOMAIN record |-> JsonDumps(record[k])]
Deserialize(file) == [k \in DOMAIN file |-> JsonLoads(file[k])]

\* The declared type of a key, "" for a key the schema does not declare.
DeclaredType(configs, key) ==
    IF \E i \in 1..Len(configs) : configs[i][1] = key
    THEN configs[CHOOSE i \in 1..Len(configs) : configs[i][1] = key][2]
    ELSE ""

\* The record of a payload's decoded members: a repeated key keeps its
\* last value.
RecordOf(members) ==
    [k \in {members[i][1] : i \in 1..Len(members)} |->
        members[CHOOSE i \in 1..Len(members) :
                    /\ members[i][1] = k
                    /\ \A j \in 1..Len(members) : members[j][1] = k => j <= i][2]]

\* Mutant: the record file is appended to instead of replaced.
PersistAppends(w, name, id, record) ==
    World([w.schemas EXCEPT ![name].cache = Put(@, id, record)],
          [w.files EXCEPT ![name] =
              Put(@, id,
                  IF id \in DOMAIN @
                  THEN [k \in DOMAIN record |->
                           (IF k \in DOMAIN @[id] THEN @[id][k] ELSE "")
                               \o JsonDumps(record[k])]
                  ELSE Serialize(record))])

\* persist(schemaName, id, record), then Cache.put(id, record).
PersistAndPut(w, name, id, record) ==
    World([w.schemas EXCEPT ![name].cache = Put(@, id, record)],
          [w.files EXCEPT ![name] = Put(@, id, Serialize(record))])

\* The validation of a decoded member: declared keys are type-checked,
\* others pass.
CheckMember(configs, member) ==
    IF DeclaredType(configs, member[1]) = "" THEN Return(member[2])
    ELSE validate(DeclaredType(configs, member[1]), member[2])

FirstRaise(checked) ==
    checked[CHOOSE i \in 1..Len(checked) :
                /\ checked[i].kind = "raise"
                /\ \A j \in 1..Len(checked) : checked[j].kind = "raise" => i <= j]

WriteChecked(w, name, id, members, checked) ==
    IF \E i \in 1..Len(checked) : checked[i].kind = "raise"
    THEN Result(w, FirstRaise(checked))
    ELSE Result(PersistAndPut(w, name, id, RecordOf(members)), Return(PyNone))

WriteDecoded(w, name, id, members) ==
    IF \E i \in 1..Len(members) : members[i][2].ty = "JSONDecodeError"
    THEN Result(w, Raise("MalformedInput", id))
    ELSE WriteChecked(w, name, id, members,
                      [i \in 1..Len(members) |->
                          CheckMember(w.schemas[name].configs, members[i])])

\* Schema.write(id, rawPayload): the payload's members are decoded, the
\* declared ones validated, the record persisted and put into the cache.
Schema_write(w, name, id, payload) ==
    WriteDecoded(w, name, id,
                 [i \in 1..Len(payload) |-> <<payload[i][1], JsonLoads(payload[i][2])>>])

\* Cache fill on a miss: the file's record enters the cache.
Fill(w, name, id, record) ==
    Result(World([w.schemas EXCEPT ![name].cache = Put(@, id, record)], w.files),
           Return(record))

\* Schema.read(id): the cache's entry, else the file's record, which fills the
\* cache; FileNotFoundError when there is neither.
Schema_read(w, name, id) ==
    IF id \in DOMAIN w.schemas[name].cache
    THEN Result(w, Return(w.schemas[name].cache[id]))
    ELSE IF id \in DOMAIN w.files[name]
    THEN Fill(w, name, id, Deserialize(w.files[name][id]))
    ELSE Result(w, Raise("FileNotFoundError", id))

\* Cache.load(): every record file of the schema's directory is read into
\* the cache.
Cache_load(w, name) ==
    World([w.schemas EXCEPT ![name].cache =
               [id \in DOMAIN w.files[name] |-> Deserialize(w.files[name][id])] @@ @],
          w.files)

\* Schema.display_dict(): the declared fields and their types.
display_dict(w, name) == w.schemas[name].configs


(***************************************************************************)
(* Session.run_command, one operator per branch.  restargs are the words   *)
(* after the command's name; inputs are the console's answers to the       *)
(* prompts of an interactive insert.                                       *)
(***************************************************************************)
IndexError == Raise("IndexError", "list index out of range")

\* The assertion messages of the branches that need a schema.
NoSchemaBold(name) == "No schema named [bold]" \o name \o "[/bold] found"
NoSchemaPlain(name) == "No schema named " \o name \o " found"

\* display_syntax(cmd, valid).
display_syntax(c, valid) ==
    "[red]Wrong usage of command " \o c
        \o "\n[bold]Correct Usage (<>: Required, []: Optional):[/bold][/red] [green]"
        \o valid \o "[/green]"

\* An engine call that prints nothing.
Silent(r) == Outcome(r.w, r.res, <<>>)

\* !create_schema
CmdCreateSchema(w, restargs) ==
    IF Len(restargs) = 0 THEN Outcome(w, IndexError, <<>>)
    ELSE Silent(add_schema(w, restargs[1], Tail(restargs)))

\* !drop_schema
CmdDropSchema(w, restargs) ==
    IF Len(restargs) = 0 THEN Outcome(w, IndexError, <<>>)
    ELSE Silent(drop_schema(w, restargs[1]))

\* !load_cache with names: each name is announced and loaded; a name that is
\* no schema (KeyError) is reported and the loop goes on.
\* Mutant: the first name that is no schema ends the loop.
RECURSIVE LoadNamedStopsAtMiss(_, _, _, _)
LoadNamedStopsAtMiss(w, restargs, i, lines) ==
    IF i > Len(restargs) THEN Outcome(w, Return(PyNone), lines)
    ELSE IF restargs[i] \in DOMAIN w.schemas
    THEN LoadNamedStopsAtMiss(Cache_load(w, restargs[i]), restargs, i + 1,
                              Append(lines, Line("Loading", restargs[i])))
    ELSE Outcome(w, Return(PyNone),
                 lines \o <<Line("Loading", restargs[i]),
                            Line("No schema named", restargs[i])>>)

RECURSIVE LoadNamed(_, _, _, _)
LoadNamed(w, restargs, i, lines) ==
    IF i > Len(restargs) THEN Outcome(w, Return(PyNone), lines)
    ELSE IF restargs[i] \in DOMAIN w.schemas
    THEN LoadNamed(Cache_load(w, restargs[i]), restargs, i + 1,
                   Append(lines, Line("Loading", restargs[i])))
    ELSE LoadNamed(w, restargs, i + 1,
                   lines \o <<Line("Loading", restargs[i]),
                              Line("No schema named", restargs[i])>>)

\* !load_cache without names: every schema's cache is loaded.
RECURSIVE LoadAll(_, _)
LoadAll(w, names) ==
    IF names = {} THEN w
    ELSE LET name == CHOOSE x \in names : TRUE
         IN  LoadAll(Cache_load(w, name), names \ {name})

CmdLoadCache(w, restargs) ==
    IF Len(restargs) = 0
    THEN Outcome(LoadAll(w, DOMAIN w.schemas), Return(PyNone), <<>>)
    ELSE LoadNamed(w, restargs, 1, <<>>)

\* !display_schema
CmdDisplaySchema(w, restargs) ==
    IF Len(restargs) # 1
    THEN Outcome(w, Return(PyNone),
                 <<Line("usage", display_syntax("!display_schema",
                                                "!display_schema <schema_name>"))>>)
    ELSE IF restargs[1] \notin DOMAIN w.schemas
    THEN Outcome(w, Raise("AssertionError", NoSchemaBold(restargs[1])), <<>>)
    ELSE Outcome(w, Return(PyNone), <<Line("table", display_dict(w, restargs[1]))>>)

\* The except clauses around the interactive insert.
InsertHandler(w, exc) ==
    IF exc.exc = "DataTypeConflictException"
    THEN Outcome(w, Return(PyNone), <<Line("red", exc.msg)>>)
    ELSE IF exc.exc = "JSONDecodeError"
    THEN Outcome(w, Return(PyNone), <<Line("red", "Invalid Input.")>>)
    ELSE Outcome(w, exc, <<>>)

\* self.app.schemas[restargs[0]].write(restargs[1], items) inside the try.
WriteItems(r) ==
    IF r.res.kind = "raise" THEN InsertHandler(r.w, r.res)
    ELSE Outcome(r.w, Return(PyNone), <<>>)

\* Mutant: the record is written under restargs[0], the schema's name.
WriteOrHandleWrongId(w, restargs, items) ==
    IF items.kind = "raise" THEN InsertHandler(w, items)
    ELSE WriteItems(Schema_write(w, restargs[1], restargs[1], items.value))

WriteOrHandle(w, restargs, items) ==
    IF items.kind = "raise" THEN InsertHandler(w, items)
    ELSE WriteItems(Schema_write(w, restargs[1], restargs[2], items.value))

\* insert <schema> <id>: the fields are prompted for, then written.
InsertInteractive(w, restargs, inputs) ==
    WriteOrHandle(w, restargs, map_insert_to_json(w.schemas[restargs[1]].configs, inputs))

\* insert <schema> <id> <payload words>: the words after the id, joined, are
\* written; no except clause surrounds the call.
InsertInline(w, restargs) ==
    IF Len(restargs) < 2 THEN Outcome(w, IndexError, <<>>)
    ELSE Silent(Schema_write(w, restargs[1], restargs[2],
                             SubSeq(restargs, 3, Len(restargs))))

CmdInsert(w, restargs, inputs) ==
    IF Len(restargs) = 0 THEN Outcome(w, IndexError, <<>>)
    ELSE IF restargs[1] \notin DOMAIN w.schemas
    THEN Outcome(w, Raise("AssertionError", NoSchemaBold(restargs[1])), <<>>)
    ELSE IF Len(restargs) = 2 THEN InsertInteractive(w, restargs, inputs)
    ELSE InsertInline(w, restargs)

\* Mutant: no except clause for FileNotFoundError.
ShowReadUncaught(r, id) ==
    IF r.res.kind = "return"
    THEN Outcome(r.w, Return(PyNone), <<Line("table", r.res.value)>>)
    ELSE Outcome(r.w, r.res, <<>>)

\* The try around Schema.read: the record is printed, a missing file reported.
ShowRead(r, id) ==
    IF r.res.kind = "return"
    THEN Outcome(r.w, Return(PyNone), <<Line("table", r.res.value)>>)
    ELSE IF r.res.exc = "FileNotFoundError"
    THEN Outcome(r.w, Return(PyNone), <<Line("No data with ID", id)>>)
    ELSE Outcome(r.w, r.res, <<>>)

\* Mutant: the schema is looked up without the assertion before it.
CmdSelectUnasserted(w, restargs) ==
    IF Len(restargs) = 0 THEN Outcome(w, IndexError, <<>>)
    ELSE IF Len(restargs) < 2 THEN Outcome(w, IndexError, <<>>)
    ELSE IF restargs[1] \notin DOMAIN w.schemas
    THEN Outcome(w, Raise("KeyError", restargs[1]), <<>>)
    ELSE ShowRead(Schema_read(w, restargs[1], restargs[2]), restargs[2])

\* select <schema> <id>
CmdSelect(w, restargs) ==
    IF Len(restargs) = 0 THEN Outcome(w, IndexError, <<>>)
    ELSE IF restargs[1] \notin DOMAIN w.schemas
    THEN Outcome(w, Raise("AssertionError", NoSchemaPlain(restargs[1])), <<>>)
    ELSE IF Len(restargs) < 2 THEN Outcome(w, IndexError, <<>>)
    ELSE ShowRead(Schema_read(w, restargs[1], restargs[2]), restargs[2])

QuitWords == {"!q", "!quit", ":q", ":quit"}

run_command(w, action, restargs, inputs) ==
    IF action = "!create_schema" THEN CmdCreateSchema(w, restargs)
    ELSE IF action = "!drop_schema" THEN CmdDropSchema(w, restargs)
    ELSE IF action = "!load_cache" THEN CmdLoadCache(w, restargs)
    ELSE IF action = "!display_schema" THEN CmdDisplaySchema(w, restargs)
    ELSE IF action = "insert" THEN CmdInsert(w, restargs, inputs)
    ELSE IF action = "select" THEN CmdSelect(w, restargs)
    ELSE IF action \in QuitWords THEN Outcome(w, Raise("KeyboardInterrupt", ""), <<>>)
    ELSE Outcome(w, Return(PyNone), <<Line("red", "Invalid Command")>>)

(***************************************************************************)
(* Session.run_session: one pass of its loop over the words of a command   *)
(* line.  AssertionError is printed and the loop goes on; KeyboardInterrupt*)
(* ends the session; any other exception leaves the loop uncaught.  The    *)
(* engine's own errors, whose classes the session does not name, are       *)
(* reported to the caller as the engine's contract states.                 *)
(***************************************************************************)
EngineErrors == {"DuplicateSchema", "MalformedSchema", "SchemaNotFound", "MalformedInput"}

Pass(w, st, lines) == [w |-> w, status |-> st, out |-> lines]

\* The except clauses of run_session around run_command.
Caught(r) ==
    IF r.res.kind = "return" THEN Pass(r.w, "running", r.lines)
    ELSE IF r.res.exc = "AssertionError"
    THEN Pass(r.w, "running", Append(r.lines, Line("red", r.res.msg)))
    ELSE IF r.res.exc = "KeyboardInterrupt"
    THEN Pass(r.w, "ended", Append(r.lines, Line("green", "Thanks for using peanuts!")))
    ELSE IF r.res.exc \in EngineErrors
    THEN Pass(r.w, "running", Append(r.lines, Line(r.res.exc, r.res.msg)))
    ELSE Pass(r.w, "crashed", Append(r.lines, Line("Traceback", r.res.exc)))

run_session(w, vals, inputs) ==
    IF Len(vals) = 0 THEN Pass(w, "crashed", <<Line("Traceback", "IndexError")>>)
    ELSE Caught(run_command(w, vals[1], Tail(vals), inputs))

(***************************************************************************)
(* The words and console answers the model feeds the session.              *)
(***************************************************************************)
SchemaNames == {"user", "tags"}
Ids == {"u1", "u2"}
Declarations ==
    { <<"name", "STRING", "age", "INTEGER">>,
      <<"tags", "ARRAY_INTEGER">>,
      <<"age">> }
InputTexts == {"Ann", "30", "true", "[1, 2]", "[1, \"a\"]"}
\* The payload words of an inline insert, each a member: its key and the text
\* of its value.
Payloads ==
    { << <<"name", "\"Ann\"">>, <<"age", "30">> >>,
      << <<"age", "\"thirty\"">> >>,
      << <<"age", "31">> >>,
      << <<"tags", "[1, 2]">> >>,
      << <<"tags", "[1, \"a\"]">> >>,
      << <<"age", "thirty">> >> }
\* Every console input the validation is tried on.
ValidateTexts ==
    InputTexts \cup
    { "1", "false", "1.5", "null", "\"Ann\"", "\"\"", "[]", "[1,2]", "[\"a\", 1]",
      "[\"a\", \"b\"]", "[true, false]", "[1, true]", "[true, 1]", "[1.5]",
      "[1.5, 1]", "[1, null, \"a\"]", "{\"k\": 1}", "[1, 2" }

NameLists(k) == UNION {[1..m -> SchemaNames] : m \in 0..k}

Pending == [kind |-> "pending"]

\* The databases a session is opened on: a new one, and one an earlier
\* session left, whose schema is registered again and whose cache is cold.
StoredUser == ("name" :> PyStr("Ann")) @@ ("age" :> PyInt(30))
Databases ==
    { World(EmptyMap, EmptyMap),
      World("user" :> [configs |-> Configs(<<"name", "STRING", "age", "INTEGER">>),
                       cache |-> EmptyMap],
            "user" :> ("u1" :> Serialize(StoredUser))) }

InitSession(w) ==
    /\ schemas = w.schemas
    /\ files = w.files
    /\ status = "running"
    /\ out = <<Line("cyan", "Welcome to peanuts")>>
    /\ cmd = [vals |-> <<>>, inputs |-> <<>>]
    /\ n = 0
    /\ written = [name \in DOMAIN w.files |->
                     [id \in DOMAIN w.files[name] |-> Deserialize(w.files[name][id])]]
    /\ dropped = {}
    /\ repeated = FALSE

Init ==
    /\ \E w \in Databases : InitSession(w)
    /\ vType = "STRING"
    /\ vInput = ""
    /\ vResult = Pending

(***************************************************************************)
(* The members an insert command asks to store, decoded: the answers of an *)
(* interactive insert (a STRING field takes its answer as it is), or the   *)
(* payload words of an inline one.                                         *)
(***************************************************************************)
AskedMembers(configs, restargs, inputs) ==
    IF Len(restargs) = 2
    THEN [i \in 1..Len(configs) |->
            <<configs[i][1],
              IF configs[i][2] = "STRING" THEN PyStr(inputs[i]) ELSE JsonLoads(inputs[i])>>]
    ELSE [i \in 1..(Len(restargs) - 2) |->
            <<restargs[i + 2][1], JsonLoads(restargs[i + 2][2])>>]

IsInsert(vals) == Len(vals) >= 3 /\ vals[1] = "insert"
Succeeded(p) == p.status = "running" /\ p.out = <<>>

\* The history after a pass p of the loop over the words vals.
WrittenAfter(p, vals, inputs) ==
    [name \in DOMAIN p.w.schemas |->
        IF name \notin DOMAIN schemas THEN EmptyMap
        ELSE IF IsInsert(vals) /\ vals[2] = name /\ Succeeded(p)
        THEN Put(written[name], vals[3],
                 RecordOf(AskedMembers(schemas[name].configs, Tail(vals), inputs)))
        ELSE written[name]]

DroppedAfter(p, vals) ==
    IF Len(vals) >= 2 /\ vals[1] = "!drop_schema" /\ vals[2] \in DOMAIN schemas
    THEN dropped \cup {vals[2]}
    ELSE IF Len(vals) >= 2 /\ vals[1] = "!create_schema" /\ Succeeded(p)
    THEN dropped \ {vals[2]}
    ELSE dropped

\* The state a pass of the loop leaves.
Becomes(p, vals, inputs) ==
    /\ schemas' = p.w.schemas
    /\ files' = p.w.files
    /\ status' = p.status
    /\ out' = p.out
    /\ written' = WrittenAfter(p, vals, inputs)
    /\ dropped' = DroppedAfter(p, vals)

\* The loop reads a command while the session runs.
Ready == status = "running" /\ n < MaxCmds

\* One pass of run_session's loop: a command line is read and run.
Do(vals, inputs) ==
    /\ Becomes(run_session(World(schemas, files), vals, inputs), vals, inputs)
    /\ cmd' = [vals |-> vals, inputs |-> inputs]
    /\ repeated' = (n > 0 /\ Len(vals) = Len(cmd.vals) /\ vals = cmd.vals /\ inputs = cmd.inputs)
    /\ n' = n + 1
    /\ UNCHANGED validateVars

CreateSchema ==
    \E restargs \in {<<>>} \cup {<<name>> \o decl : name \in SchemaNames, decl \in Declarations} :
        /\ Ready
        /\ Do(<<"!create_schema">> \o restargs, <<>>)

DropSchema ==
    \E restargs \in NameLists(1) :
        /\ Ready
        /\ Do(<<"!drop_schema">> \o restargs, <<>>)

LoadCache ==
    \E restargs \in NameLists(MaxLoadArgs) :
        /\ Ready
        /\ Do(<<"!load_cache">> \o restargs, <<>>)

DisplaySchema ==
    \E restargs \in NameLists(1) \cup {<<"user", "tags">>} :
        /\ Ready
        /\ Do(<<"!display_schema">> \o restargs, <<>>)

\* The answers an interactive insert prompts for: one per declared field.
Answers(restargs) ==
    IF Len(restargs) = 2 /\ restargs[1] \in DOMAIN schemas
    THEN [1..Len(schemas[restargs[1]].configs) -> InputTexts]
    ELSE {<<>>}

InsertWords ==
    NameLists(1)
        \cup {<<name, id>> : name \in SchemaNames, id \in Ids}
        \cup {<<name, id>> \o payload : name \in SchemaNames, id \in Ids, payload \in Payloads}

Insert ==
    \E restargs \in InsertWords, inputs \in [1..2 -> InputTexts] \cup [1..1 -> InputTexts] \cup {<<>>} :
        /\ Ready
        /\ inputs \in Answers(restargs)
        /\ Do(<<"insert">> \o restargs, inputs)

Select ==
    \E restargs \in NameLists(1) \cup {<<name, id>> : name \in SchemaNames, id \in Ids} :
        /\ Ready
        /\ Do(<<"select">> \o restargs, <<>>)

Quit ==
    \E word \in QuitWords :
        /\ Ready
        /\ Do(<<word>>, <<>>)

InvalidCommand ==
    /\ Ready
    /\ Do(<<"!help">>, <<>>)

EmptyCommand ==
    /\ Ready
    /\ Do(<<>>, <<>>)

Next ==
    \/ CreateSchema
    \/ DropSchema
    \/ LoadCache
    \/ DisplaySchema
    \/ Insert
    \/ Select
    \/ Quit
    \/ InvalidCommand
    \/ EmptyCommand

Spec == Init /\ [][Next]_vars

(***************************************************************************)
(* The validation alone: a field type and a console input are drawn, and   *)
(* map_insert_to_json's pass over them is applied.                         *)
(***************************************************************************)
InitValidate ==
    /\ InitSession(World(EmptyMap, EmptyMap))
    /\ vType \in FieldTypes
    /\ vInput \in ValidateTexts
    /\ vResult = Pending

Validate ==
    /\ vResult.kind = "pending"
    /\ vResult' = FieldEntry(vType, vInput)
    /\ UNCHANGED <<vType, vInput>>
    /\ UNCHANGED sessionVars

NextValidate == Validate

SpecValidate == InitValidate /\ [][NextValidate]_vars

(***************************************************************************)
(* What the claims speak of.                                               *)
(***************************************************************************)
\* The value a field's check sees: the answer itself for a STRING field, the
\* decoded answer otherwise.
DecodedInput(tdata, ind) == IF tdata = "STRING" THEN PyStr(ind) ELSE JsonLoads(ind)

Malformed(members) ==
    \E i \in 1..Len(members) : members[i][2].ty = "JSONDecodeError"
Conflicting(configs, members) ==
    \E i \in 1..Len(members) : CheckMember(configs, members[i]).kind = "raise"

\* The members the command vals asks to store in the schema it names.
Asked(vals, inputs) == AskedMembers(schemas[vals[2]].configs, Tail(vals), inputs)
ValidAsk(vals, inputs) ==
    /\ ~Malformed(Asked(vals, inputs))
    /\ ~Conflicting(schemas[vals[2]].configs, Asked(vals, inputs))

Restrict(record, keys) == [k \in DOMAIN record \cap keys |-> record[k]]
DeclaredKeys(name) ==
    {schemas[name].configs[i][1] : i \in 1..Len(schemas[name].configs)}

\* What Schema.read returns for (name, id) in the current state.
ReadNow(name, id) == Schema_read(World(schemas, files), name, id).res

FirstOf(S) == CHOOSE i \in S : \A j \in S : i <= j

\* C1 (as claimed): a scalar field's check accepts a decoded value exactly
\* when its runtime type is the field's expected type, and otherwise raises
\* a type conflict; so a boolean is rejected for INTEGER.
C1_ScalarExactType ==
    ( /\ vResult.kind # "pending"
      /\ vType \in ScalarTypes
      /\ DecodedInput(vType, vInput).ty # "JSONDecodeError" )
    => /\ (vResult.kind = "return")
            <=> (DecodedInput(vType, vInput).ty = ExpectedClass(vType))
       /\ vResult.kind = "raise" => vResult.exc = "DataTypeConflictException"

\* C2 (as claimed): an array field's check accepts a list exactly when every
\* item matches the base type, and otherwise raises the type conflict of
\* the first item that does not (expected base type, the item's type).
C2_ArrayEveryItem ==
    ( /\ vResult.kind # "pending"
      /\ vType \in ArrayTypes
      /\ JsonLoads(vInput).ty = "list" )
    => LET items == JsonLoads(vInput).v
           bad == {i \in 1..Len(items) : items[i].ty # ExpectedClass(vType)}
       IN  IF bad = {}
           THEN vResult.kind = "return" /\ vResult.value = JsonLoads(vInput)
           ELSE /\ vResult.kind = "raise"
                /\ vResult.exc = "DataTypeConflictException"
                /\ vResult.msg =
                     DataTypeConflictException(ClassStr(ExpectedClass(vType)),
                                               ClassStr(items[FirstOf(bad)].ty)).msg

\* C3 (as claimed): after an insert of valid fields under an identifier, the
\* select of that identifier reads a mapping equal to the fields on the
\* declared keys, each value with its type.
C3_RoundTrip ==
    ( /\ IsInsert(cmd.vals)
      /\ cmd.vals[2] \in DOMAIN schemas
      /\ ValidAsk(cmd.vals, cmd.inputs) )
    => /\ ReadNow(cmd.vals[2], cmd.vals[3]).kind = "return"
       /\ Restrict(ReadNow(cmd.vals[2], cmd.vals[3]).value, DeclaredKeys(cmd.vals[2]))
            = Restrict(RecordOf(Asked(cmd.vals, cmd.inputs)), DeclaredKeys(cmd.vals[2]))

\* C4: every cache entry equals the record on disk under the same identifier,
\* and reading an identifier returns the record of the most recent insert of
\* it that succeeded, whether the cache holds it or not.
C4_CacheDiskConsistent ==
    \A name \in DOMAIN schemas :
        /\ name \in DOMAIN files
        /\ \A id \in DOMAIN schemas[name].cache :
              /\ id \in DOMAIN files[name]
              /\ schemas[name].cache[id] = Deserialize(files[name][id])
        /\ \A id \in DOMAIN written[name] :
              /\ ReadNow(name, id).kind = "return"
              /\ ReadNow(name, id).value = written[name][id]

\* C4's case: a record an earlier session stored was overwritten by an insert
\* and the select after it printed the new record.
C4_Witness ==
    /\ cmd.vals = <<"select", "user", "u1">>
    /\ "user" \in DOMAIN schemas
    /\ "u1" \in DOMAIN written["user"]
    /\ written["user"]["u1"] # StoredUser
    /\ Len(out) = 1
    /\ out[1].kind = "table"
    /\ out[1].val = written["user"]["u1"]

\* C5: a dropped name has no schema and no directory until it is created
\* again, and an insert or select naming it reports that no schema has that
\* name, changes neither the schemas nor the files, and the session goes on.
C5_DropSemantics ==
    [][ /\ \A name \in dropped' : name \notin DOMAIN schemas' /\ name \notin DOMAIN files'
        /\ ( /\ Len(cmd'.vals) >= 2
             /\ cmd'.vals[1] \in {"insert", "select"}
             /\ cmd'.vals[2] \in dropped )
           => /\ status' = "running"
              /\ Len(out') = 1
              /\ out'[1].kind = "red"
              /\ out'[1].val \in {NoSchemaBold(cmd'.vals[2]), NoSchemaPlain(cmd'.vals[2])}
              /\ schemas' = schemas
              /\ files' = files ]_vars

\* C5's case: "user" was dropped and a select naming it was refused.
C5_Witness ==
    /\ "user" \in dropped
    /\ cmd.vals = <<"select", "user", "u1">>
    /\ Len(out) = 1
    /\ out[1].kind = "red"
    /\ out[1].val = NoSchemaPlain("user")
    /\ "user" \notin DOMAIN files

\* The command vals, read in the current state, fails with an error of the
\* taxonomy.
TaxonomyError(vals, inputs) ==
    /\ Len(vals) >= 2
    /\ \/ /\ vals[1] \in {"insert", "select", "!drop_schema"}
          /\ vals[2] \notin DOMAIN schemas
       \/ /\ vals[1] = "!display_schema"
          /\ Len(vals) = 2
          /\ vals[2] \notin DOMAIN schemas
       \/ /\ vals[1] = "!create_schema"
          /\ \/ vals[2] \in DOMAIN schemas
             \/ ~WellFormedDeclaration(SubSeq(vals, 3, Len(vals)))
       \/ /\ vals[1] = "select"
          /\ Len(vals) = 3
          /\ vals[2] \in DOMAIN schemas
          /\ vals[3] \notin DOMAIN schemas[vals[2]].cache
          /\ vals[3] \notin DOMAIN files[vals[2]]
       \/ /\ IsInsert(vals)
          /\ vals[2] \in DOMAIN schemas
          /\ ~ValidAsk(vals, inputs)

\* C6 (as claimed): a command that fails with an error of the taxonomy does
\* not end the session.
C6_ErrorsRecoverable ==
    [][ (n' = n + 1 /\ TaxonomyError(cmd'.vals, cmd'.inputs)) => status' = "running" ]_vars

\* C7: after a load of named schemas, the cache of every name that is a
\* schema holds every record of its directory, each name that is none is
\* reported, and nothing else is: a miss ends neither the loop nor the
\* session.
C7_LoadIsolatesMisses ==
    (Len(cmd.vals) >= 2 /\ cmd.vals[1] = "!load_cache")
    => /\ status = "running"
       /\ \A i \in 2..Len(cmd.vals) :
             cmd.vals[i] \in DOMAIN schemas
             => schemas[cmd.vals[i]].cache =
                    [id \in DOMAIN files[cmd.vals[i]] |->
                        Deserialize(files[cmd.vals[i]][id])]
       /\ {out[j].val : j \in {k \in 1..Len(out) : out[k].kind = "No schema named"}}
            = {cmd.vals[i] : i \in 2..Len(cmd.vals)} \ DOMAIN schemas

\* C7's case: the session's first command loads "tags", which is no schema,
\* and then "user", whose cold cache now holds the stored record.
C7_Witness ==
    /\ n = 1
    /\ cmd.vals = <<"!load_cache", "tags", "user">>
    /\ "tags" \notin DOMAIN schemas
    /\ "user" \in DOMAIN schemas
    /\ "u1" \in DOMAIN schemas["user"].cache
    /\ \E j \in 1..Len(out) : out[j] = Line("No schema named", "tags")

\* C8: an insert that succeeds, repeated at once with the same words and
\* answers, leaves the files and the caches as the first one left them.
C8_WriteIdempotent ==
    [][ ( /\ repeated'
          /\ IsInsert(cmd'.vals)
          /\ out = <<>>
          /\ out' = <<>>
          /\ status' = "running" )
        => files' = files /\ schemas' = schemas ]_vars

\* C8's case: the same insert succeeded twice in a row.
C8_Witness ==
    /\ repeated
    /\ IsInsert(cmd.vals)
    /\ out = <<>>
    /\ status = "running"
    /\ cmd.vals[2] \in DOMAIN files
    /\ cmd.vals[3] \in DOMAIN files[cmd.vals[2]]

\* C9: a select of an identifier that is neither in the cache nor on disk
\* reports that no data has that identifier, creates no cache entry and no
\* file, and the session goes on.
C9_MissingRecord ==
    [][ ( /\ n' = n + 1
          /\ Len(cmd'.vals) = 3
          /\ cmd'.vals[1] = "select"
          /\ cmd'.vals[2] \in DOMAIN schemas
          /\ cmd'.vals[3] \notin DOMAIN schemas[cmd'.vals[2]].cache
          /\ cmd'.vals[3] \notin DOMAIN files[cmd'.vals[2]] )
        => /\ status' = "running"
           /\ Len(out') = 1
           /\ out'[1] = Line("No data with ID", cmd'.vals[3])
           /\ schemas' = schemas
           /\ files' = files ]_vars

\* C9's case: the select of "u2", which was never stored, was reported.
C9_Witness ==
    /\ cmd.vals = <<"select", "user", "u2">>
    /\ "user" \in DOMAIN schemas
    /\ "u2" \notin DOMAIN files["user"]
    /\ Len(out) = 1
    /\ out[1] = Line("No data with ID", "u2")
    /\ status = "running"

\* C10: an insert whose fields do not all decode and validate leaves the
\* files and the caches as they were.
C10_FailedInsertChangesNothing ==
    [][ ( /\ n' = n + 1
          /\ IsInsert(cmd'.vals)
          /\ cmd'.vals[2] \in DOMAIN schemas
          /\ ~ValidAsk(cmd'.vals, cmd'.inputs) )
        => schemas' = schemas /\ files' = files ]_vars

\* C10's case: an interactive insert under "u1" failed on a field after one
\* that passed, and the record stored before is still on disk.
C10_Witness ==
    /\ cmd.vals = <<"insert", "user", "u1">>
    /\ "user" \in DOMAIN schemas
    /\ cmd.inputs = <<"30", "Ann">>
    /\ "u1" \in DOMAIN files["user"]
    /\ Deserialize(files["user"]["u1"]) = StoredUser
    /\ Len(out) = 1
    /\ out[1] = Line("red", "Invalid Input.")

====
